---- MODULE Spec2Model ----
(***************************************************************************)
(* Model of package rowlock (rowlock.go): a RowLock is a sync.Map from row *)
(* to sync.Locker plus a sync.Pool of spare lockers.  Lock(row) and        *)
(* Unlock(row) resolve the row's locker with getLocker and then call       *)
(* Lock()/Unlock() on it.  The lockers are the default ones, sync.Mutex.   *)
(*                                                                         *)
(* Each goroutine is a thread that makes one call at a time.  A call is    *)
(* split at the points where other goroutines can interleave:              *)
(*   Lock/Unlock  entry of the call and lockerPool.Get()      (line 58)    *)
(*   LoadOrStore  locks.LoadOrStore(row, newLocker), and the               *)
(*                return when nothing was loaded           (lines 59-63)   *)
(*   Put          lockerPool.Put(newLocker) and the return (lines 61-63)   *)
(*   MutexLock    the returned locker's Lock()                (line 45)    *)
(*   MutexUnlock  the returned locker's Unlock()              (line 50)    *)
(***************************************************************************)
EXTENDS Naturals, FiniteSets

NumThreads == 2
NumRows == 2
\* How many Unlock calls the callers make on rows they do not hold.
MaxMisuse == 1

Thread == 1..NumThreads
Row == 1..NumRows

\* Locker instances are identified by their address.  A table over NumRows
\* rows used by NumThreads goroutines never references more than
\* NumRows + NumThreads lockers at once unless the pool hoards them; an
\* address that nothing references any more is garbage and may be handed out
\* again by the allocator.
Locker == 1..(NumRows + NumThreads)
NoLocker == 0

\* sync.Pool: Get may return any pooled item or ignore the pool and call New,
\* and pooled items may be dropped ("arbitrary").  The two extreme pools are
\* the one that keeps every item and calls New only when empty ("reuse") and
\* the one that keeps nothing ("fresh").
PoolPolicy == {"reuse", "fresh", "arbitrary"}

VARIABLES
    locks,       \* RowLock.locks: row -> bound locker, NoLocker when absent
    lockerPool,  \* RowLock.lockerPool: the idle lockers
    mutex,       \* sync.Mutex state of each locker: TRUE when locked
    poolPolicy,  \* how this run's sync.Pool behaves
    pc,          \* where each thread is in its call
    op,          \* the call a thread is in: "Lock", "Unlock" or "none"
    row,         \* the row argument of that call
    newLocker,   \* getLocker's local newLocker (the candidate)
    locker,      \* the locker getLocker returned
    held,        \* history: rows whose Lock a thread completed and has not unlocked
    misuse,      \* history: how many Unlock(r) calls were made by a thread not holding r
    called,      \* history: the calls ("Lock", "Unlock") ever made on each row
    stored,      \* history: how many times LoadOrStore stored a value for a row
    returned     \* history: every locker getLocker ever returned for a row

vars == <<locks, lockerPool, mutex, poolPolicy, pc, op, row, newLocker, locker,
          held, misuse, called, stored, returned>>

----------------------------------------------------------------------------
\* Helpers

BoundRows == {r \in Row : locks[r] # NoLocker}
BoundLockers == {locks[r] : r \in BoundRows}

\* A thread is inside getLocker, between Get and the return.
InGetLocker(t) == pc[t] \in {"LoadOrStore", "Put"}
Candidates == {newLocker[t] : t \in {u \in Thread : InGetLocker(u)}}

\* Lockers something still references.
Live == lockerPool \cup BoundLockers \cup Candidates

Min(S) == CHOOSE x \in S : \A y \in S : x <= y

\* The fatal error of sync.Mutex ends the whole process.
NoFault == \A t \in Thread : pc[t] # "fault"

Holders(r) == {t \in Thread : r \in held[t]}

----------------------------------------------------------------------------
\* sync.Pool

\* Faulty variant: Get calls New every time, whatever the pool holds.
PoolGetAlwaysNew(policy, pool, live) ==
    LET free == Locker \ live
    IN  IF free = {} THEN {} ELSE {Min(free)}

\* The lockers a Get may return: a pooled one, or a new one from New (f()).
\* Pooled lockers are interchangeable (idle, unlocked, referenced by nothing
\* else), and so are unused addresses: the lowest one stands for any of them.
PoolGet(policy, pool, live) ==
    LET free == Locker \ live
        fresh == IF free = {} THEN {} ELSE {Min(free)}
        idle == IF pool = {} THEN {} ELSE {Min(pool)}
    IN  CASE policy = "reuse" -> IF pool # {} THEN idle ELSE fresh
          [] policy = "fresh" -> fresh
          [] OTHER -> idle \cup fresh

\* Faulty variant: Get leaves the returned item in the pool.
PoolAfterGetKeeps(pool, l) == pool

\* A Get takes the item it returns out of the pool.
PoolAfterGet(pool, l) == pool \ {l}

\* The pools a Put(l) may leave behind.
PoolPut(policy, pool, l) ==
    CASE policy = "reuse" -> {pool \cup {l}}
      [] policy = "fresh" -> {pool}
      [] OTHER -> {pool \cup {l}, pool}

----------------------------------------------------------------------------
\* sync.Map.LoadOrStore(key, value)

\* Faulty variant: one key for every row, that is one lock for the whole table.
RowKeyGlobal(r) == 1

\* The key under which a row's locker is kept.
RowKey(r) == r

LoadOrStoreLoaded(m, key) == m[key] # NoLocker

\* Faulty variant: the value passed in comes back even when the key is bound.
LoadOrStoreActualValue(m, key, value) == value

LoadOrStoreActual(m, key, value) == IF m[key] # NoLocker THEN m[key] ELSE value

\* Faulty variant: a plain Store, which replaces an existing binding.
LoadOrStoreMapOverwrites(m, key, value) == [m EXCEPT ![key] = value]

LoadOrStoreMap(m, key, value) ==
    IF m[key] # NoLocker THEN m ELSE [m EXCEPT ![key] = value]

----------------------------------------------------------------------------
\* getLocker

\* Faulty variant: the loaded locker is put in the pool, not the candidate.
PutArgLoaded(nl, lk) == lk

\* What is handed to lockerPool.Put when the row was loaded.
PutArg(nl, lk) == nl

\* Faulty variant: getLocker returns its own candidate.
GetLockerResultCandidate(nl, lk) == nl

\* What getLocker returns.
GetLockerResult(nl, lk) == lk

----------------------------------------------------------------------------
\* sync.Mutex

\* Faulty variant: Lock() never waits.
MutexCanLockAlways(m, l) == TRUE

\* Lock() proceeds only on an unlocked mutex.
MutexCanLock(m, l) == ~m[l]

\* Faulty variant: Unlock() of an unlocked mutex does nothing.
MutexUnlockFaultsNever(m, l) == FALSE

\* Unlock() of an unlocked mutex is a fatal error.
MutexUnlockFaults(m, l) == ~m[l]

\* Faulty variant: Unlock() leaves the mutex locked.
MutexAfterUnlockStuck(m, l) == m

MutexAfterUnlock(m, l) == [m EXCEPT ![l] = FALSE]

----------------------------------------------------------------------------
Init ==
    /\ locks = [r \in Row |-> NoLocker]
    /\ lockerPool = {}
    /\ mutex = [l \in Locker |-> FALSE]
    /\ poolPolicy \in PoolPolicy
    /\ pc = [t \in Thread |-> "idle"]
    /\ op = [t \in Thread |-> "none"]
    /\ row = [t \in Thread |-> 1]
    /\ newLocker = [t \in Thread |-> NoLocker]
    /\ locker = [t \in Thread |-> NoLocker]
    /\ held = [t \in Thread |-> {}]
    /\ misuse = 0
    /\ called = [r \in Row |-> {}]
    /\ stored = [r \in Row |-> 0]
    /\ returned = [r \in Row |-> {}]

\* Entry of Lock(row)/Unlock(row) and getLocker's lockerPool.Get().
Enter(t, o, r) ==
    /\ NoFault
    /\ pc[t] = "idle"
    /\ \E l \in PoolGet(poolPolicy, lockerPool, Live) :
          /\ newLocker' = [newLocker EXCEPT ![t] = l]
          /\ lockerPool' = PoolAfterGet(lockerPool, l)
          /\ mutex' = IF l \in lockerPool THEN mutex ELSE [mutex EXCEPT ![l] = FALSE]
    /\ pc' = [pc EXCEPT ![t] = "LoadOrStore"]
    /\ op' = [op EXCEPT ![t] = o]
    /\ row' = [row EXCEPT ![t] = r]
    /\ called' = [called EXCEPT ![r] = @ \cup {o}]
    /\ UNCHANGED <<locks, poolPolicy, locker, held, stored, returned>>

Lock(t, r) ==
    /\ Enter(t, "Lock", r)
    /\ UNCHANGED misuse

Unlock(t, r) ==
    /\ r \notin held[t] => misuse < MaxMisuse
    /\ Enter(t, "Unlock", r)
    /\ misuse' = IF r \in held[t] THEN misuse ELSE misuse + 1

\* locks.LoadOrStore(row, newLocker); without a load getLocker returns at once.
LoadOrStore(t) ==
    LET key == RowKey(row[t])
        ld == LoadOrStoreLoaded(locks, key)
        actual == LoadOrStoreActual(locks, key, newLocker[t])
        res == GetLockerResult(newLocker[t], actual)
    IN  /\ NoFault
        /\ pc[t] = "LoadOrStore"
        /\ locks' = LoadOrStoreMap(locks, key, newLocker[t])
        /\ stored' = [stored EXCEPT ![key] = IF locks'[key] # locks[key] THEN @ + 1 ELSE @]
        /\ IF ld
             THEN /\ pc' = [pc EXCEPT ![t] = "Put"]
                  /\ locker' = [locker EXCEPT ![t] = actual]
                  /\ UNCHANGED <<newLocker, returned>>
             ELSE /\ pc' = [pc EXCEPT ![t] = "Locker"]
                  /\ locker' = [locker EXCEPT ![t] = res]
                  /\ newLocker' = [newLocker EXCEPT ![t] = NoLocker]
                  /\ returned' = [returned EXCEPT ![row[t]] = @ \cup {res}]
        /\ UNCHANGED <<lockerPool, mutex, poolPolicy, op, row, held, misuse, called>>

\* lockerPool.Put(newLocker) and getLocker's return.
Put(t) ==
    LET res == GetLockerResult(newLocker[t], locker[t])
    IN  /\ NoFault
        /\ pc[t] = "Put"
        /\ lockerPool' \in PoolPut(poolPolicy, lockerPool, PutArg(newLocker[t], locker[t]))
        /\ pc' = [pc EXCEPT ![t] = "Locker"]
        /\ locker' = [locker EXCEPT ![t] = res]
        /\ newLocker' = [newLocker EXCEPT ![t] = NoLocker]
        /\ returned' = [returned EXCEPT ![row[t]] = @ \cup {res}]
        /\ UNCHANGED <<locks, mutex, poolPolicy, op, row, held, misuse,
                       called, stored>>

\* The call is over: the thread's locals are gone.
Return(t) ==
    /\ pc' = [pc EXCEPT ![t] = "idle"]
    /\ op' = [op EXCEPT ![t] = "none"]
    /\ row' = [row EXCEPT ![t] = 1]
    /\ locker' = [locker EXCEPT ![t] = NoLocker]

\* rl.getLocker(row).Lock(): blocks while the mutex is locked.
MutexLock(t) ==
    /\ NoFault
    /\ pc[t] = "Locker"
    /\ op[t] = "Lock"
    /\ MutexCanLock(mutex, locker[t])
    /\ mutex' = [mutex EXCEPT ![locker[t]] = TRUE]
    /\ held' = [held EXCEPT ![t] = @ \cup {row[t]}]
    /\ Return(t)
    /\ UNCHANGED <<locks, lockerPool, poolPolicy, newLocker, misuse, called,
                   stored, returned>>

\* rl.getLocker(row).Unlock(): releases a locked mutex, faults on an unlocked one.
MutexUnlock(t) ==
    /\ NoFault
    /\ pc[t] = "Locker"
    /\ op[t] = "Unlock"
    /\ IF MutexUnlockFaults(mutex, locker[t])
         THEN /\ pc' = [pc EXCEPT ![t] = "fault"]
              /\ UNCHANGED <<mutex, held, op, row, locker>>
         ELSE /\ mutex' = MutexAfterUnlock(mutex, locker[t])
              /\ held' = [held EXCEPT ![t] = @ \ {row[t]}]
              /\ Return(t)
    /\ UNCHANGED <<locks, lockerPool, poolPolicy, newLocker, misuse, called,
                   stored, returned>>

\* The steps of a call that is under way.
Step(t) == LoadOrStore(t) \/ Put(t) \/ MutexLock(t) \/ MutexUnlock(t)

Next ==
    \/ \E t \in Thread, r \in Row : Lock(t, r)
    \/ \E t \in Thread, r \in Row : Unlock(t, r)
    \/ \E t \in Thread : LoadOrStore(t)
    \/ \E t \in Thread : Put(t)
    \/ \E t \in Thread : MutexLock(t)
    \/ \E t \in Thread : MutexUnlock(t)

Spec == Init /\ [][Next]_vars

\* Callers that unlock only rows they hold.
DisciplinedNext == Next /\ misuse' = misuse

\* Disciplined callers, and a goroutine whose call is under way and can take
\* its next step is eventually scheduled.
FairSpec ==
    /\ Init
    /\ [][DisciplinedNext]_vars
    /\ \A t \in Thread : WF_vars(Step(t))

----------------------------------------------------------------------------
\* Properties

\* The row's mutex is locked.
RowLocked(r) == locks[r] # NoLocker /\ mutex[locks[r]]

\* Thread t is in Lock(r), waiting at or about to take the locker's Lock().
AtMutexLock(t, r) == pc[t] = "Locker" /\ op[t] = "Lock" /\ row[t] = r

\* C1: mutual exclusion per row.  As long as every Unlock(r) was called by a
\* thread that held r, at most one thread is between its completed Lock(r)
\* and its Unlock(r), for every row r.
MutualExclusion ==
    misuse = 0 => \A r \in Row : Cardinality(Holders(r)) <= 1

\* A thread holds a row while another one is waiting in Lock on that row.
MutualExclusionWitness ==
    /\ misuse = 0
    /\ \E r \in Row, t, u \in Thread :
          t # u /\ r \in held[t] /\ AtMutexLock(u, r) /\ RowLocked(r)

\* C2: single binding.  LoadOrStore stores at most one locker for a row, every
\* call that is past its LoadOrStore on a row finds the row bound, and the
\* candidate of a call that lost (it loaded) is bound to no row and is what
\* the call hands back to the pool.
SingleBindingState ==
    /\ \A r \in Row :
          /\ stored[r] <= 1
          /\ (\E t \in Thread : pc[t] \in {"Put", "Locker"} /\ row[t] = r)
                => stored[r] = 1 /\ locks[r] # NoLocker
    /\ \A t \in Thread :
          pc[t] = "Put" => newLocker[t] # NoLocker /\ newLocker[t] \notin BoundLockers

LoserRecycled ==
    \A t \in Thread :
        (pc[t] = "Put" /\ pc'[t] = "Locker")
            => /\ newLocker[t] \notin BoundLockers'
               /\ lockerPool' \in {lockerPool, lockerPool \cup {newLocker[t]}}
               /\ poolPolicy = "reuse" => newLocker[t] \in lockerPool'

SingleBinding == [](SingleBindingState) /\ [][LoserRecycled]_vars

\* Two first calls on one row raced: both took a candidate before either
\* stored, one stored its candidate and the other is about to put its own back.
SingleBindingWitness ==
    \E t, u \in Thread :
        /\ t # u /\ row[t] = row[u]
        /\ op[t] = "Lock" /\ op[u] = "Lock"
        /\ pc[t] = "Locker" /\ pc[u] = "Put"
        /\ locker[t] = locks[row[t]] /\ locker[u] = locks[row[u]]
        /\ newLocker[u] # locks[row[u]]
        /\ called[row[t]] = {"Lock"} /\ held = [x \in Thread |-> {}]
        /\ lockerPool = {} /\ poolPolicy = "reuse"

\* C3: resolution agreement.  All the getLocker calls ever made for a row
\* returned one and the same locker, the one the table binds to the row.
ResolutionAgreement ==
    \A r \in Row : Cardinality(returned[r]) <= 1 /\ returned[r] \subseteq {locks[r]}

\* An Unlock and a Lock of one row have both resolved the row's locker.
ResolutionAgreementWitness ==
    \E t, u \in Thread :
        /\ t # u /\ row[t] = row[u]
        /\ pc[t] = "Locker" /\ pc[u] = "Locker"
        /\ op[t] = "Lock" /\ op[u] = "Unlock"
        /\ row[u] \in held[u]
        /\ locker[t] = locker[u]

PermanentBindings ==
    [][\A r \in Row : locks[r] # NoLocker => locks'[r] = locks[r]]_vars

\* Every row is bound and a later call has loaded an existing binding.
PermanentBindingsWitness ==
    /\ BoundRows = Row
    /\ \E t \in Thread : pc[t] = "Put"
    /\ \E t \in Thread : held[t] # {}

\* C7: locker placement.  No locker is in two places at once, the places
\* being the pool, the binding of a row and the candidate of a getLocker
\* call under way.
BoundTo(l) == {r \in Row : locks[r] = l}
CandidateOf(l) == {t \in Thread : InGetLocker(t) /\ newLocker[t] = l}
Places(l) ==
    (IF l \in lockerPool THEN 1 ELSE 0) + Cardinality(BoundTo(l))
        + Cardinality(CandidateOf(l))

Contender(b, x) ==
    \E c \in Thread \ {b} : op[c] = "Lock" /\ row[c] = x /\ pc[c] # "idle"

Releasing(a, x) == x \in held[a] /\ op[a] = "Unlock" /\ row[a] = x

NoEarlyReturn ==
    \A a, b \in Thread, x \in Row :
        (a # b /\ misuse = 0 /\ x \in held[a] /\ x \in held'[a])
            => ~(x \notin held[b] /\ x \in held'[b])

HandOver ==
    /\ [][NoEarlyReturn]_vars
    /\ \A a, b \in Thread, x \in Row :
          (a # b /\ misuse = 0 /\ AtMutexLock(b, x) /\ Releasing(a, x))
              ~> (x \in held[b] \/ Contender(b, x) \/ misuse > 0)

\* The holder is about to release the row another thread is blocked on.
HandOverWitness ==
    \E a, b \in Thread, x \in Row :
        /\ a # b /\ misuse = 0
        /\ AtMutexLock(b, x) /\ RowLocked(x)
        /\ Releasing(a, x) /\ pc[a] = "Locker"

\* C8: pool transparency.  Whatever the pool does, what callers can observe
\* (where each call is, who holds which row, which rows are bound and which
\* are locked) moves as in a table that has one mutex of its own per row and
\* no pool: the same steps are enabled, and each step has the same effect.
RowLockedMap == [r \in Row |-> RowLocked(r)]

obs == <<pc, op, row, held, BoundRows, RowLockedMap>>

ObsCanStep(t) ==
    /\ NoFault
    /\ \/ pc[t] \in {"LoadOrStore", "Put"}
       \/ pc[t] = "Locker" /\ (op[t] = "Unlock" \/ ~RowLocked(row[t]))

SameBlocking ==
    \A t \in Thread :
        /\ (ENABLED Step(t)) <=> ObsCanStep(t)
        /\ (pc[t] = "idle" /\ NoFault) => \A r \in Row : ENABLED Lock(t, r)

OwnLockerPerRow ==
    \A r1, r2 \in BoundRows : r1 # r2 => locks[r1] # locks[r2]

ObsEnter(t) ==
    /\ pc[t] = "idle"
    /\ \E o \in {"Lock", "Unlock"}, r \in Row :
          /\ op' = [op EXCEPT ![t] = o]
          /\ row' = [row EXCEPT ![t] = r]
    /\ pc' = [pc EXCEPT ![t] = "LoadOrStore"]
    /\ held' = held /\ BoundRows' = BoundRows /\ RowLockedMap' = RowLockedMap

ObsLoadOrStore(t) ==
    /\ pc[t] = "LoadOrStore"
    /\ BoundRows' = BoundRows \cup {row[t]}
    /\ pc' = [pc EXCEPT ![t] = IF row[t] \in BoundRows THEN "Put" ELSE "Locker"]
    /\ op' = op /\ row' = row /\ held' = held /\ RowLockedMap' = RowLockedMap

ObsPut(t) ==
    /\ pc[t] = "Put"
    /\ pc' = [pc EXCEPT ![t] = "Locker"]
    /\ op' = op /\ row' = row /\ held' = held
    /\ BoundRows' = BoundRows /\ RowLockedMap' = RowLockedMap

ObsReturn(t) ==
    /\ pc' = [pc EXCEPT ![t] = "idle"]
    /\ op' = [op EXCEPT ![t] = "none"]
    /\ row' = [row EXCEPT ![t] = 1]
    /\ BoundRows' = BoundRows

ObsMutexLock(t) ==
    /\ pc[t] = "Locker" /\ op[t] = "Lock"
    /\ ~RowLocked(row[t])
    /\ RowLockedMap' = [RowLockedMap EXCEPT ![row[t]] = TRUE]
    /\ held' = [held EXCEPT ![t] = @ \cup {row[t]}]
    /\ ObsReturn(t)

ObsMutexUnlock(t) ==
    /\ pc[t] = "Locker" /\ op[t] = "Unlock"
    /\ IF RowLocked(row[t])
         THEN /\ RowLockedMap' = [RowLockedMap EXCEPT ![row[t]] = FALSE]
              /\ held' = [held EXCEPT ![t] = @ \ {row[t]}]
              /\ ObsReturn(t)
         ELSE /\ pc' = [pc EXCEPT ![t] = "fault"]
              /\ op' = op /\ row' = row /\ held' = held
              /\ BoundRows' = BoundRows /\ RowLockedMap' = RowLockedMap

ObsStep(t) ==
    \/ ObsEnter(t) \/ ObsLoadOrStore(t) \/ ObsPut(t)
    \/ ObsMutexLock(t) \/ ObsMutexUnlock(t)

PoolTransparency ==
    /\ [](SameBlocking /\ OwnLockerPerRow)
    /\ [][\E t \in Thread : ObsStep(t)]_obs

\* With a pool that keeps what it is given: a losing candidate is back in
\* the pool while one thread holds a row and another is blocked on it.
PoolTransparencyWitness ==
    /\ poolPolicy = "reuse"
    /\ lockerPool # {}
    /\ \E t, u \in Thread, r \in Row :
          t # u /\ r \in held[t] /\ AtMutexLock(u, r) /\ RowLocked(r)

\* C9, as stated: every bound row has had a Lock call made on it.
BoundOnlyByLock ==
    \A r \in BoundRows : "Lock" \in called[r]

\* C9, amended: every bound row has had a Lock or an Unlock call made on it;
\* a row nobody called on is unbound.
BoundOnlyByCall ==
    \A r \in BoundRows : called[r] # {}

\* A row was bound by an Unlock, no Lock having been called on it.
BoundOnlyByCallWitness ==
    \E r \in BoundRows : called[r] = {"Unlock"}

\* C10: misuse is delegated.  An Unlock that reaches the Unlock() of a row's
\* locker while that locker is not locked ends in the mutex's fatal error: it
\* does not return, it changes no lock, and the fault is never undone.
MisuseFaultsStep ==
    \A t \in Thread :
        /\ (pc[t] = "Locker" /\ op[t] = "Unlock" /\ ~RowLocked(row[t])
                /\ pc'[t] # pc[t])
              => /\ pc'[t] = "fault"
                 /\ mutex' = mutex /\ locks' = locks /\ held' = held
        /\ pc[t] = "fault" => pc'[t] = "fault"

OthersQuiet(t) == \A u \in Thread \ {t} : pc[u] = "idle" /\ held[u] = {}

NestedLock(t, r) ==
    /\ OthersQuiet(t)
    /\ called[r] = {}
    /\ \A r2 \in Row : "Unlock" \notin called[r2]
    /\ Lock(t, r)

NestedUnlock(t, r) ==
    /\ r \in held[t]
    /\ \A r2 \in Row : "Lock" \in called[r2]
    /\ Unlock(t, r)

NestedNext ==
    \/ \E t \in Thread, r \in Row : NestedLock(t, r)
    \/ \E t \in Thread, r \in Row : NestedUnlock(t, r)
    \/ \E t \in Thread : LoadOrStore(t)
    \/ \E t \in Thread : Put(t)
    \/ \E t \in Thread : MutexLock(t)
    \/ \E t \in Thread : MutexUnlock(t)

\* The thread runs its calls one after the other without stopping.
NestedSpec == Init /\ [][NestedNext]_vars /\ WF_vars(NestedNext)

NestedDone ==
    /\ \A r \in Row : called[r] = {"Lock", "Unlock"}
    /\ \A t \in Thread : pc[t] = "idle" /\ held[t] = {}

NestedTerminates ==
    /\ [](NoFault /\ (NestedDone \/ ENABLED NestedNext))
    /\ <>(NestedDone /\ BoundRows = Row /\ \A r \in Row : ~RowLocked(r))

\* The thread holds one row and is at the Lock() of another row's locker.
NestedTerminatesWitness ==
    \E t \in Thread, a, b \in Row :
        a # b /\ a \in held[t] /\ AtMutexLock(t, b) /\ ~RowLocked(b)

\* Thread t's lockerPool.Get() happens in this step.
GetStep(t) == pc[t] = "idle" /\ pc'[t] = "LoadOrStore"

\* C12, as stated: Get returns an idle locker whenever the pool holds one and
\* a newly constructed one only when the pool holds none, and hands no locker
\* to two callers.
PoolAcquireStrict ==
    [][\A t \in Thread :
          GetStep(t) =>
              /\ IF lockerPool # {}
                   THEN newLocker'[t] \in lockerPool
                   ELSE newLocker'[t] \in Locker \ Live
              /\ newLocker'[t] \notin lockerPool'
              /\ \A u \in Thread \ {t} : InGetLocker(u) => newLocker[u] # newLocker'[t]]_vars

\* C12, amended: Get returns either an idle locker, which it takes out of the
\* pool, or a newly constructed, unlocked one, and always the latter when the
\* pool holds none; a pool that keeps and reuses everything returns an idle
\* locker whenever it holds one; no locker is handed to two callers.
PoolAcquire ==
    [][\A t \in Thread :
          GetStep(t) =>
              /\ \/ newLocker'[t] \in lockerPool
                 \/ newLocker'[t] \in Locker \ Live /\ ~mutex'[newLocker'[t]]
              /\ lockerPool = {} => newLocker'[t] \in Locker \ Live
              /\ (poolPolicy = "reuse" /\ lockerPool # {}) => newLocker'[t] \in lockerPool
              /\ newLocker'[t] \notin lockerPool'
              /\ \A u \in Thread \ {t} : InGetLocker(u) => newLocker[u] # newLocker'[t]]_vars

\* With a pool that keeps everything, an earlier Unlock has put its candidate
\* back and the only call under way has emptied the pool again: its Get
\* returned the idle locker.
PoolAcquireWitness ==
    /\ poolPolicy = "reuse" /\ NoFault
    /\ lockerPool = {}
    /\ \E r \in Row : "Unlock" \in called[r]
    /\ \E t \in Thread :
          /\ pc[t] = "LoadOrStore" /\ op[t] = "Lock"
          /\ \A u \in Thread \ {t} : pc[u] = "idle"

\* C13: resolve outcome. Thread t's LoadOrStore step on an unbound row binds
\* the candidate, which is what getLocker returns, and the pool is not touched;
\* on a bound row it leaves the table as it is and keeps the candidate unbound,
\* and the Put step that follows hands the candidate to the pool, leaves the
\* table as it is and returns the locker that was bound.
ResolveOutcome ==
    [][\A t \in Thread :
          /\ (pc[t] = "LoadOrStore" /\ pc'[t] # "LoadOrStore") =>
                IF locks[row[t]] = NoLocker
                  THEN /\ locks' = [locks EXCEPT ![row[t]] = newLocker[t]]
                       /\ pc'[t] = "Locker"
                       /\ locker'[t] = newLocker[t]
                       /\ lockerPool' = lockerPool
                       /\ newLocker[t] \notin lockerPool'
                  ELSE /\ locks' = locks
                       /\ pc'[t] = "Put"
                       /\ newLocker'[t] = newLocker[t]
                       /\ newLocker[t] \notin BoundLockers'
                       /\ lockerPool' = lockerPool
          /\ (pc[t] = "Put" /\ pc'[t] # "Put") =>
                /\ locks' = locks
                /\ pc'[t] = "Locker"
                /\ locker'[t] = locks[row[t]]
                /\ newLocker[t] \notin BoundLockers'
                /\ lockerPool' \in PoolPut(poolPolicy, lockerPool, newLocker[t])
                /\ poolPolicy = "reuse" => newLocker[t] \in lockerPool']_vars

\* Two first Lock calls raced on one row and both have resolved it: one bound
\* its candidate, the other put its candidate back and got the bound locker.
ResolveOutcomeWitness ==
    \E t, u \in Thread, r \in Row :
        /\ t # u
        /\ called[r] = {"Lock"}
        /\ AtMutexLock(t, r) /\ AtMutexLock(u, r)
        /\ locker[t] = locks[r] /\ locker[u] = locks[r]
        /\ poolPolicy = "reuse" /\ lockerPool # {}

\* The row of the call thread t is making in this step.
CallRow(t) == IF pc[t] = "idle" THEN row'[t] ELSE row[t]

\* C14: frame on other rows. Every step of a Lock(r) or Unlock(r) call leaves
\* alone, for every row other than r, its binding, whether its locker is
\* locked, and its holder.
FrameOtherRows ==
    [][\A t \in Thread :
          pc'[t] # pc[t] =>
              \A r2 \in Row \ {CallRow(t)} :
                  /\ locks'[r2] = locks[r2]
                  /\ locks[r2] # NoLocker => mutex'[locks[r2]] = mutex[locks[r2]]
                  /\ RowLocked(r2)' = RowLocked(r2)
                  /\ Holders(r2)' = Holders(r2)]_vars

\* One thread holds a row while another, holding a different row, is inside
\* its Unlock of that row.
FrameOtherRowsWitness ==
    \E t, u \in Thread, a, b \in Row :
        /\ t # u /\ a # b
        /\ a \in held[t] /\ RowLocked(a)
        /\ b \in held[u] /\ RowLocked(b)
        /\ op[u] = "Unlock" /\ row[u] = b /\ pc[u] = "Locker"

\* Thread t is inside Unlock(r).
InUnlock(t, r) == pc[t] # "idle" /\ op[t] = "Unlock" /\ row[t] = r

\* C15: recycled lockers are unlocked. Every locker that is idle in the pool
\* or is a candidate not yet committed is unlocked; a locker is unlocked when
\* it becomes bound; and a row's locker is locked only while some thread has
\* acquired the row, so that the first Lock on a row finds it unlocked.
RecycledUnlocked ==
    /\ [](\A l \in lockerPool \cup Candidates : ~mutex[l])
    /\ [](\A r \in Row :
             RowLocked(r) =>
                 /\ "Lock" \in called[r]
                 /\ \E t \in Thread : r \in held[t] \/ InUnlock(t, r))
    /\ [][\A r \in Row :
             (locks[r] = NoLocker /\ locks'[r] # NoLocker) =>
                 ~mutex[locks'[r]] /\ ~mutex'[locks'[r]]]_vars

\* A pool that keeps everything is empty again after an Unlock put a locker
\* in it: the locker went to the row that has only been locked since, and the
\* first Lock on that row has acquired it.
RecycledUnlockedWitness ==
    /\ poolPolicy = "reuse" /\ NoFault /\ misuse = 0
    /\ lockerPool = {} /\ Candidates = {}
    /\ \E r \in Row : "Unlock" \in called[r]
    /\ \E t \in Thread, r2 \in Row :
          r2 \in held[t] /\ called[r2] = {"Lock"} /\ RowLocked(r2)

\* C16: no fault under disciplined use. As long as every Unlock(r) was called
\* by the holder of r, no thread has faulted and every Unlock that has
\* resolved its row is about to unlock a locked locker, the row's own.
NoFaultDisciplined ==
    misuse = 0 =>
        /\ NoFault
        /\ \A t \in Thread :
              (pc[t] = "Locker" /\ op[t] = "Unlock") =>
                  /\ locker[t] = locks[row[t]]
                  /\ mutex[locker[t]]
                  /\ ~MutexUnlockFaults(mutex, locker[t])

\* Two threads raced on the first access to a row; the winner has acquired it
\* and is already unlocking it while the loser has not yet put its candidate
\* back.
NoFaultDisciplinedWitness ==
    \E t, u \in Thread, r \in Row :
        /\ t # u /\ misuse = 0
        /\ pc[t] = "Locker" /\ op[t] = "Unlock" /\ row[t] = r
        /\ pc[u] = "Put" /\ op[u] = "Lock" /\ row[u] = r
        /\ \A r2 \in Row \ {r} : called[r2] = {}

\* Lockers bound to no row: idle in the pool or some call's candidate.
Unbound == lockerPool \cup Candidates

\* C17: bounded construction with a retaining pool. With a pool that drops
\* nothing and constructs only when it is empty, every locker ever constructed
\* is still in the pool, a candidate or bound; the unbound ones are at most as
\* many as the threads, and all of them at most the bound rows plus the
\* threads.
BoundedConstruction ==
    poolPolicy = "reuse" =>
        /\ Cardinality(Unbound) <= NumThreads
        /\ Cardinality(Live) <= Cardinality(BoundRows) + NumThreads

\* The bound is met before every row is bound: as many lockers are unbound as
\* there are threads, some of them idle in the pool.
BoundedConstructionWitness ==
    /\ poolPolicy = "reuse"
    /\ BoundRows # Row /\ BoundRows # {}
    /\ lockerPool # {}
    /\ Cardinality(Unbound) = NumThreads
    /\ Cardinality(Live) = Cardinality(BoundRows) + NumThreads

\* Callers under the single-row discipline: a thread calls Lock only while it
\* holds no row, and Unlock only on the row it holds.
SingleRowLock(t, r) == held[t] = {} /\ Lock(t, r)

SingleRowUnlock(t, r) == r \in held[t] /\ Unlock(t, r)

SingleRowNext ==
    \/ \E t \in Thread, r \in Row : SingleRowLock(t, r)
    \/ \E t \in Thread, r \in Row : SingleRowUnlock(t, r)
    \/ \E t \in Thread : LoadOrStore(t)
    \/ \E t \in Thread : Put(t)
    \/ \E t \in Thread : MutexLock(t)
    \/ \E t \in Thread : MutexUnlock(t)

\* A call under way is eventually scheduled when it can take its next step,
\* and a thread whose Lock(r) has returned eventually calls Unlock(r).
SingleRowSpec ==
    /\ Init
    /\ [][SingleRowNext]_vars
    /\ \A t \in Thread : WF_vars(Step(t))
    /\ \A t \in Thread : WF_vars(\E r \in Row : SingleRowUnlock(t, r))

\* The thread is inside a call or still has a row to unlock.
Unfinished(t) == pc[t] # "idle" \/ held[t] # {}

\* The thread is in the locker's Lock(), and the mutex is locked.
Blocked(t) ==
    pc[t] = "Locker" /\ op[t] = "Lock" /\ ~MutexCanLock(mutex, locker[t])

CanProceed(t) ==
    \/ ENABLED Step(t)
    \/ ENABLED (\E r \in Row : SingleRowUnlock(t, r))

\* Thread t is in Lock(r) and has resolved the row.
Waiting(r) == \E t \in Thread : AtMutexLock(t, r)

\* C18: deadlock freedom under single-row discipline. No thread faults and,
\* while some thread is unfinished, some unfinished thread is not blocked in
\* Lock and can take a step; whenever a thread is waiting in Lock(r), r is
\* eventually acquired: if it is locked it is eventually released, and if it is
\* free some thread eventually locks it.
SingleRowDeadlockFree ==
    /\ [](NoFault /\ misuse = 0)
    /\ []((\E t \in Thread : Unfinished(t)) =>
             \E t \in Thread : Unfinished(t) /\ ~Blocked(t) /\ CanProceed(t))
    /\ \A r \in Row : (Waiting(r) /\ RowLocked(r)) ~> ~RowLocked(r)
    /\ \A r \in Row : (Waiting(r) /\ ~RowLocked(r)) ~> RowLocked(r)

\* One thread is blocked in Lock(r) while the other, back from its own
\* Lock(r), holds the row and has not called Unlock yet.
SingleRowDeadlockFreeWitness ==
    \E t, u \in Thread, r \in Row :
        /\ t # u
        /\ AtMutexLock(t, r) /\ Blocked(t)
        /\ r \in held[u] /\ pc[u] = "idle"

====
